---- MODULE Spec2Model ----
(***************************************************************************)
(* The tool orchestration pipeline of the agentic LLM platform:            *)
(* AgentOrchestrator.process_query and its three stages _select_tools,     *)
(* _execute_tools (with the web_search -> pdf_parser chaining) and         *)
(* _create_response, run over a conversation's message history.            *)
(*                                                                         *)
(* process_query is a coroutine.  The two calls of the language model are  *)
(* synchronous calls of the OpenAI client, so the only points where a run  *)
(* yields the event loop are the awaits of tool.execute.  Every action     *)
(* below is one such atomic block: it runs from one suspension point to    *)
(* the next one (or to the end of process_query).                          *)
(***************************************************************************)
EXTENDS Integers, Sequences, FiniteSets, TLC

\* Longest "tools" list of an oracle reply.
MaxSel == 2

(***************************************************************************)
(* Strings the code inspects character by character are sequences of       *)
(* characters.                                                             *)
(***************************************************************************)
PdfLower == <<"a", ".", "p", "d", "f">>
PdfUpper == <<"B", ".", "P", "D", "F">>
HtmlLink == <<"c", ".", "h", "t", "m">>
NoLink == <<>>
DotPdf == <<".", "p", "d", "f">>

\* str.lower() on the characters that occur in the links.
LowerChar(c) ==
    CASE c = "B" -> "b"
      [] c = "P" -> "p"
      [] c = "D" -> "d"
      [] c = "F" -> "f"
      [] OTHER -> c

Lower(s) == [i \in 1..Len(s) |-> LowerChar(s[i])]

\* str.endswith(suffix)
EndsWith(s, suffix) ==
    /\ Len(s) >= Len(suffix)
    /\ SubSeq(s, Len(s) - Len(suffix) + 1, Len(s)) = suffix

(***************************************************************************)
(* The registry.  main.py registers four tools; AgentOrchestrator takes    *)
(* any mapping (tools or {}), so registries without web_search or without  *)
(* pdf_parser, and the empty one, are orchestrators too.                   *)
(***************************************************************************)
ToolNames == {"web_search", "pdf_parser", "data_analysis", "code_execute"}

Registries ==
    {ToolNames, ToolNames \ {"web_search"}, ToolNames \ {"pdf_parser"}, {}}

RunIds == {"r1", "r2"}

\* The query of a run: each run carries its own text, so that the messages of
\* the history tell which run appended them.
QueryOf(r) == IF r = "r1" THEN "q1" ELSE "q2"

\* A value of a parameter the caller did not supply.
Absent == "<absent>"

\* A parameter mapping: the "query" and the "url" entries, the rest opaque.
Params(q, u) == [query |-> q, url |-> u]

(***************************************************************************)
(* The oracle.  Its call raises (API error, timeout), or its content is    *)
(* not JSON, or it is a JSON object with a "tools" list.  An entry of the  *)
(* list is a dict with a name and params, or not a dict at all.            *)
(***************************************************************************)
OracleQuery == "oracle-q"

ReplyEntries ==
    {[dict |-> TRUE, name |-> "web_search", params |-> Params(Absent, NoLink)],
     [dict |-> TRUE, name |-> "web_search", params |-> Params(OracleQuery, NoLink)],
     [dict |-> TRUE, name |-> "pdf_parser", params |-> Params(Absent, PdfLower)],
     [dict |-> TRUE, name |-> "data_analysis", params |-> Params(Absent, NoLink)],
     [dict |-> TRUE, name |-> "no_such_tool", params |-> Params(Absent, NoLink)],
     [dict |-> FALSE, name |-> "None", params |-> Params(Absent, NoLink)]}

SeqsUpTo(S, n) == UNION {[1..k -> S] : k \in 0..n}

OracleOutcomes ==
    {[kind |-> "raise", tools |-> <<>>], [kind |-> "unparsable", tools |-> <<>>]}
    \cup {[kind |-> "json", tools |-> t] : t \in SeqsUpTo(ReplyEntries, MaxSel)}

\* A loop that keeps every entry, registered or not.
RECURSIVE SelectLoopNoFilter(_, _, _, _, _)
SelectLoopNoFilter(reg, q, entries, i, acc) ==
    IF i > Len(entries) THEN [raised |-> FALSE, sel |-> acc]
    ELSE LET e == entries[i] IN
         IF ~e.dict THEN [raised |-> TRUE, sel |-> acc]
         ELSE LET p == IF e.name = "web_search" /\ e.params.query = Absent
                       THEN [e.params EXCEPT !.query = q]
                       ELSE e.params
              IN SelectLoopNoFilter(reg, q, entries, i + 1,
                                    Append(acc, [name |-> e.name, params |-> p]))

\* The loop of _select_tools over data["tools"]: the selections kept so far, or
\* a raised exception (tool.get on an entry that is no dict).
RECURSIVE SelectLoop(_, _, _, _, _)
SelectLoop(reg, q, entries, i, acc) ==
    IF i > Len(entries) THEN [raised |-> FALSE, sel |-> acc]
    ELSE LET e == entries[i] IN
         IF ~e.dict THEN [raised |-> TRUE, sel |-> acc]
         ELSE IF e.name \in reg
              THEN LET p == IF e.name = "web_search" /\ e.params.query = Absent
                            THEN [e.params EXCEPT !.query = q]
                            ELSE e.params
                   IN SelectLoop(reg, q, entries, i + 1,
                                 Append(acc, [name |-> e.name, params |-> p]))
              ELSE SelectLoop(reg, q, entries, i + 1, acc)

\* The except branch of _select_tools.
Fallback(reg, q) ==
    IF "web_search" \in reg
    THEN <<[name |-> "web_search", params |-> Params(q, NoLink)]>>
    ELSE <<>>

\* A _select_tools whose except branch returns the selections made so far.
SelectToolsKeepPartial(reg, q, o) ==
    IF o.kind # "json" THEN Fallback(reg, q)
    ELSE SelectLoop(reg, q, o.tools, 1, <<>>).sel

\* _select_tools: the selection list for query q given the oracle's outcome o.
SelectTools(reg, q, o) ==
    IF o.kind # "json" THEN Fallback(reg, q)
    ELSE LET r == SelectLoop(reg, q, o.tools, 1, <<>>) IN
         IF r.raised THEN Fallback(reg, q) ELSE r.sel

(***************************************************************************)
(* Tool results.  A tool returns the dict of format_result or of           *)
(* format_error; the engine's except branch builds a third shape with the  *)
(* message under "error".  key names the entry that carries the payload or *)
(* the diagnostic; jsonable says whether json.dumps accepts the dict.      *)
(***************************************************************************)
NoPayload == [key |-> "-", entries |-> <<>>]

\* BaseTool.format_result
FormatResult(name, payload, jsonable) ==
    [tool |-> name, success |-> TRUE, key |-> "result", diag |-> "",
     payload |-> payload, jsonable |-> jsonable]

\* BaseTool.format_error
FormatError(name, msg) ==
    [tool |-> name, success |-> FALSE, key |-> "result", diag |-> msg,
     payload |-> NoPayload, jsonable |-> TRUE]

\* A capture that reports success.
CapturedAsSuccess(msg) ==
    [tool |-> "-", success |-> TRUE, key |-> "error", diag |-> msg,
     payload |-> [key |-> "-", entries |-> <<>>], jsonable |-> TRUE]

\* {"error": str(e), "success": False}
Captured(msg) ==
    [tool |-> "-", success |-> FALSE, key |-> "error", diag |-> msg,
     payload |-> NoPayload, jsonable |-> TRUE]

\* The entry lists a search backend answers with.
EntryLists == {<<>>, <<HtmlLink, NoLink>>, <<HtmlLink, PdfUpper, PdfLower>>}

\* The payload _extract_pdf_urls_from_search reads: entries under "results".
ResultsPayload(es) == [key |-> "results", entries |-> es]

\* The payload search_serapi builds: entries under "result".
SerapiPayload(es) == [key |-> "result", entries |-> es]

SearchPayloads ==
    {ResultsPayload(es) : es \in EntryLists} \cup {SerapiPayload(es) : es \in EntryLists}

\* Messages of the exceptions the tools' execute lets escape.
ValidateTypeError == "'<' not supported between instances of 'str' and 'int'"
NoSecurityCheck == "'CodeExecuteTool' object has no attribute 'check_code_security'"
ParamsNoItems == "'str' object has no attribute 'items'"

Returned(res) == [kind |-> "return", value |-> res, msg |-> ""]
Raised(m) == [kind |-> "raise", value |-> Captured(m), msg |-> m]

\* What "await tool.execute(params, context)" can end with.
ToolOutcomes(name) ==
    IF name = "web_search"
    THEN {Returned(FormatResult(name, p, TRUE)) : p \in SearchPayloads}
         \cup {Returned(FormatError(name, "No SerAPI key configured")),
               Raised(ValidateTypeError)}
    ELSE {Returned(FormatResult(name, NoPayload, j)) :
              j \in IF name = "data_analysis" THEN BOOLEAN ELSE {TRUE}}
         \cup {Returned(FormatError(name, "Exception: failed")),
               Raised(IF name = "code_execute" THEN NoSecurityCheck ELSE ParamsNoItems)}

\* _extract_pdf_urls_from_search
IsPdfLink(link) == EndsWith(Lower(link), DotPdf)

ExtractPdfUrls(res) ==
    IF res.success /\ res.key = "result"
    THEN SelectSeq(IF res.payload.key = "results" THEN res.payload.entries ELSE <<>>,
                   IsPdfLink)
    ELSE <<>>

(***************************************************************************)
(* One run of process_query: its local variables.  chain holds the urls of  *)
(* the chained pdf_parser calls still to make.  calls is the record of the *)
(* execute calls the run has made and how each ended; synth is how the     *)
(* call of the language model in _create_response ended.  A pair of        *)
(* results carries, beside the (tool_name, result) of the code, the        *)
(* position sel of the selection being processed when it was appended and  *)
(* whether a chained call produced it.                                     *)
(***************************************************************************)
NoResponse == [kind |-> "none", q |-> Absent]
NoOracle == [kind |-> "none", tools |-> <<>>]
NoRet == [query |-> Absent, response |-> NoResponse, tools_used |-> <<>>,
          tool_results |-> <<>>]

IdleRun ==
    [pc |-> "idle", query |-> Absent, oracle |-> NoOracle, selected |-> <<>>,
     idx |-> 0, results |-> <<>>, chain |-> <<>>, calls |-> <<>>, synth |-> "none",
     ret |-> NoRet]

Pair(name, res, sel, chained) ==
    [name |-> name, res |-> res, sel |-> sel, chained |-> chained]

\* results.insert(0, ...)
AppendResultFront(rr, pair) == [rr EXCEPT !.results = <<pair>> \o @]

\* results.append(...)
AppendResult(rr, pair) == [rr EXCEPT !.results = Append(@, pair)]

SynthOutcomes == {"ok", "fail"}

\* _create_response: json.dumps of a result dict is outside the try, the call of
\* the language model inside it.
CreateResponse(q, results, s) ==
    IF \E i \in 1..Len(results) : ~results[i].res.jsonable
    THEN [raised |-> TRUE, response |-> NoResponse]
    ELSE [raised |-> FALSE,
          response |-> [kind |-> IF s = "ok" THEN "answer" ELSE "fallback", q |-> q]]

Names(results) == {results[i].name : i \in 1..Len(results)}

LastIndex(results, n) ==
    CHOOSE i \in 1..Len(results) :
        /\ results[i].name = n
        /\ \A j \in (i + 1)..Len(results) : results[j].name # n

\* "tools_used": [tool for tool, _ in selected_tools]
ToolsUsed(rr) == [i \in 1..Len(rr.selected) |-> rr.selected[i].name]

\* A dict that keeps the value a key already has.
PutIfAbsent(d, k, v) ==
    [n \in DOMAIN d \cup {k} |-> IF n \in DOMAIN d THEN d[n] ELSE v]

\* d[k] = v
Put(d, k, v) == [n \in DOMAIN d \cup {k} |-> IF n = k THEN v ELSE d[n]]

EmptyDict == [n \in {} |-> NoPayload]

\* "tool_results": {t: r for t, r in tool_results}: the pairs are put into the
\* dict one after the other.
RECURSIVE DictOf(_, _, _)
DictOf(results, i, d) ==
    IF i > Len(results) THEN d
    ELSE DictOf(results, i + 1, Put(d, results[i].name, results[i].res))

ToolResults(results) == DictOf(results, 1, EmptyDict)

UserMessage(q) == [role |-> "user", content |-> [kind |-> "query", q |-> q]]
AssistantMessage(resp) == [role |-> "assistant", content |-> resp]

(***************************************************************************)
(* Parameter validation (BaseTool.validate_params).  A value of a mapping  *)
(* is a Python value: its type t and its content (s for a str, n for an    *)
(* int).  A declaration (self.parameters) and a supplied mapping are        *)
(* dicts: sequences of entries in insertion order.                         *)
(***************************************************************************)
StrV(x) == [t |-> "str", s |-> x, n |-> 0]
IntV(k) == [t |-> "int", s |-> "", n |-> k]
ListV == [t |-> "list", s |-> "", n |-> 0]

\* The entry of a declaration: type, required, and no enum, minimum or maximum.
Decl(name, type, required) ==
    [name |-> name, type |-> type, required |-> required, hasEnum |-> FALSE,
     enum |-> {}, hasMin |-> FALSE, min |-> 0, hasMax |-> FALSE, max |-> 0]

Ranged(d, lo, hi) ==
    [d EXCEPT !.hasMin = TRUE, !.min = lo, !.hasMax = TRUE, !.max = hi]

Operations == {"summary", "filter", "visualize", "aggregate"}

\* self.parameters of the four tools (of data_analysis: the parameters that
\* differ in kind), and a declaration with two required parameters.
Declaration(tool) ==
    CASE tool = "web_search" ->
             <<Decl("query", "string", TRUE),
               Ranged(Decl("num_results", "integer", FALSE), 1, 10)>>
      [] tool = "code_execute" ->
             <<Decl("code", "string", TRUE),
               Ranged(Decl("timeout", "integer", FALSE), 1, 60)>>
      [] tool = "pdf_parser" ->
             <<Decl("url", "string", FALSE), Decl("file_path", "string", FALSE),
               Decl("pages", "string", FALSE)>>
      [] tool = "data_analysis" ->
             <<Decl("file_path", "string", FALSE), Decl("url", "string", FALSE),
               [Decl("operation", "string", TRUE) EXCEPT !.hasEnum = TRUE,
                                                          !.enum = Operations],
               Decl("columns", "array", FALSE)>>
      [] OTHER ->
             <<Decl("source", "string", TRUE), Decl("target", "string", TRUE)>>

DeclaredNames(decl) == {decl[i].name : i \in 1..Len(decl)}

SpecOf(decl, name) == decl[CHOOSE i \in 1..Len(decl) : decl[i].name = name]

Supplied(params) == {params[i].name : i \in 1..Len(params)}

\* isinstance(param_value, ...) for the declared type; bool is a subclass of int.
IsInstance(v, type) ==
    CASE type = "string" -> v.t = "str"
      [] type = "number" -> v.t \in {"int", "bool"}
      [] type = "integer" -> v.t \in {"int", "bool"}
      [] type = "boolean" -> v.t = "bool"
      [] type = "array" -> v.t = "list"
      [] type = "object" -> v.t = "dict"
      [] OTHER -> TRUE

TypeWord(type) ==
    CASE type = "string" -> "a string"
      [] type = "number" -> "a number"
      [] type = "integer" -> "an integer"
      [] type = "boolean" -> "a boolean"
      [] type = "array" -> "an array"
      [] OTHER -> "an object"

\* The messages of the error list.
MissingMsg(name) == "Missing required parameter: " \o name
UnknownMsg(name) == "Unknown parameter: " \o name
TypeMsg(name, type) == "Parameter " \o name \o " should be " \o TypeWord(type)
EnumMsg(name) == "Parameter " \o name \o " must be one of: summary, filter, visualize, aggregate"
MinMsg(name, lo) == "Parameter " \o name \o " must be at least " \o ToString(lo)
MaxMsg(name, hi) == "Parameter " \o name \o " must be at most " \o ToString(hi)

\* param_value < minimum and param_value > maximum are defined on numbers only.
Ordered(v) == v.t \in {"int", "bool"}

\* str(e) of the TypeError of an order comparison of a value with an int.
CompareError(op, v) ==
    "'" \o op \o "' not supported between instances of '" \o v.t \o "' and 'int'"

\* The first loop of validate_params: the required parameters not supplied.
RECURSIVE MissingFirstOnly(_, _, _)
MissingFirstOnly(decl, params, i) ==
    IF i > Len(decl) THEN <<>>
    ELSE IF decl[i].required /\ decl[i].name \notin Supplied(params)
         THEN <<MissingMsg(decl[i].name)>>
         ELSE MissingFirstOnly(decl, params, i + 1)

RECURSIVE MissingErrors(_, _, _)
MissingErrors(decl, params, i) ==
    IF i > Len(decl) THEN <<>>
    ELSE (IF decl[i].required /\ decl[i].name \notin Supplied(params)
          THEN <<MissingMsg(decl[i].name)>>
          ELSE <<>>) \o MissingErrors(decl, params, i + 1)

\* The checks of one declared parameter (base.py 33-60): the errors appended,
\* or the TypeError of a comparison.
CheckValue(d, v) ==
    LET typeErr == IF IsInstance(v, d.type) THEN <<>> ELSE <<TypeMsg(d.name, d.type)>>
        enumErr == IF d.hasEnum /\ ~(v.t = "str" /\ v.s \in d.enum)
                   THEN <<EnumMsg(d.name)>> ELSE <<>>
        sofar == typeErr \o enumErr
    IN
    IF d.hasMin /\ ~Ordered(v)
    THEN [raised |-> TRUE, msg |-> CompareError("<", v), errors |-> sofar]
    ELSE IF d.hasMax /\ ~Ordered(v)
    THEN [raised |-> TRUE, msg |-> CompareError(">", v), errors |-> sofar]
    ELSE [raised |-> FALSE, msg |-> "",
          errors |-> sofar
                     \o (IF d.hasMin /\ v.n < d.min THEN <<MinMsg(d.name, d.min)>> ELSE <<>>)
                     \o (IF d.hasMax /\ v.n > d.max THEN <<MaxMsg(d.name, d.max)>> ELSE <<>>)]

\* The second loop of validate_params, over params.items().
RECURSIVE CheckLoop(_, _, _, _)
CheckLoop(decl, params, i, acc) ==
    IF i > Len(params) THEN [raised |-> FALSE, msg |-> "", errors |-> acc]
    ELSE IF params[i].name \notin DeclaredNames(decl)
         THEN CheckLoop(decl, params, i + 1, Append(acc, UnknownMsg(params[i].name)))
         ELSE LET c == CheckValue(SpecOf(decl, params[i].name), params[i].value) IN
              IF c.raised THEN c
              ELSE CheckLoop(decl, params, i + 1, acc \o c.errors)

\* validate_params: the error list, or the exception that leaves it.
ValidateParams(decl, params) ==
    CheckLoop(decl, params, 1, MissingErrors(decl, params, 1))

\* sep.join(errors)
RECURSIVE Join(_, _)
Join(errors, sep) ==
    IF errors = <<>> THEN ""
    ELSE IF Len(errors) = 1 THEN errors[1]
    ELSE errors[1] \o sep \o Join(Tail(errors), sep)

\* "sub in text"
Contains(text, sub) ==
    \E i \in 1..(Len(text) - Len(sub) + 1) : SubSeq(text, i, i + Len(sub) - 1) = sub

(***************************************************************************)
(* The sandbox of CodeExecuteTool.  A script is its text and what running  *)
(* the text does, statement by statement: an import of a module, a print,  *)
(* one second of computation, a raised Exception, or a raised              *)
(* BaseException that is no Exception.                                     *)
(***************************************************************************)
AllowedModules ==
    {"pandas", "numpy", "matplotlib", "seaborn", "sklearn", "datetime", "json",
     "math", "random", "re", "collections", "itertools", "functools", "statistics"}

BlockedModules ==
    {"os", "sys", "subprocess", "socket", "requests", "urllib", "http", "ftplib",
     "telnetlib", "smtplib", "ssl", "pathlib", "shutil", "tempfile", "io",
     "pickle", "importlib", "__builtins__"}

DangerousFuncs == {"eval(", "exec(", "__import__("}

ImportStmt(m) == [op |-> "import", arg |-> m]
PrintStmt(x) == [op |-> "print", arg |-> x]
WorkStmt == [op |-> "work", arg |-> ""]
RaiseStmt(m) == [op |-> "raise", arg |-> m]
RaiseBaseStmt == [op |-> "raise_base", arg |-> ""]

Scripts ==
    {[text |-> "print(6 * 7)", stmts |-> <<PrintStmt("42\n")>>],
     [text |-> "import math; print(math.floor(2.5))",
      stmts |-> <<ImportStmt("math"), PrintStmt("2\n")>>],
     [text |-> "import numpy.linalg; print(1)",
      stmts |-> <<ImportStmt("numpy.linalg"), PrintStmt("1\n")>>],
     [text |-> "import os; print(os.getcwd())",
      stmts |-> <<ImportStmt("os"), PrintStmt("/app\n")>>],
     [text |-> "import threading; print(2)",
      stmts |-> <<ImportStmt("threading"), PrintStmt("2\n")>>],
     [text |-> "print(eval('1'))", stmts |-> <<PrintStmt("1\n")>>],
     [text |-> "print(0); sum(range(10 ** 9))",
      stmts |-> <<PrintStmt("0\n"), WorkStmt, WorkStmt, WorkStmt>>],
     [text |-> "1 / 0", stmts |-> <<RaiseStmt("division by zero")>>],
     [text |-> "raise KeyboardInterrupt", stmts |-> <<RaiseBaseStmt>>]}

ScriptOf(text) == CHOOSE sc \in Scripts : sc.text = text

\* str.startswith(prefix)
StartsWith(x, prefix) == Len(x) >= Len(prefix) /\ SubSeq(x, 1, Len(prefix)) = prefix

\* _check_code_security: the issues found in the text (the loops run over sets,
\* so the issues come in no fixed order).
CheckCodeSecurity(code) ==
    {"Blocked module import: " \o m :
         m \in {b \in BlockedModules :
                    Contains(code, "import " \o b) \/ Contains(code, "from " \o b)}}
    \cup {"Blocked function usage: " \o SubSeq(f, 1, Len(f) - 1) :
              f \in {d \in DangerousFuncs : Contains(code, d)}}
    \cup {"Blocked attribute access on module: " \o m :
              m \in {b \in BlockedModules : Contains(code, b \o ".")}}

ImportOk == [ok |-> TRUE, msg |-> ""]
ImportRefused(msg) == [ok |-> FALSE, msg |-> msg]

\* secure_import(name)
SecureImport(name) ==
    IF name \in BlockedModules
    THEN ImportRefused("Import of " \o name \o " is not allowed")
    ELSE IF name \notin AllowedModules
            /\ \A m \in AllowedModules : ~StartsWith(name, m \o ".")
    THEN ImportRefused("Module " \o name \o " is not allowed")
    ELSE ImportOk

\* What the import statement calls: the function in builtins at that moment.
\* Every module the scripts name is installed.
ImportWith(fn, name) == IF fn = "secure" THEN SecureImport(name) ELSE ImportOk

NoCodeResult ==
    [stdout |-> "", stderr |-> "", execution_time |-> 0, timeout |-> FALSE,
     error |-> Absent]

IdleSandbox ==
    [pc |-> "idle", code |-> "", timeout |-> 0, original_import |-> "original",
     pos |-> 0, elapsed |-> 0, stdout |-> "", imports |-> <<>>,
     result |-> NoCodeResult]

\* The interpreter of the process: whether the name __builtins__ of the tool's
\* module is the builtins module (a module run as __main__) or its dict (an
\* imported module), and the function builtins.__import__.
Interpreters == {[builtins |-> b, import |-> "original"] : b \in {"module", "dict"}}

\* "__builtins__.__import__ = fn" under "try: ... except: pass": the assignment
\* takes effect on the module and raises AttributeError on the dict.
SetImport(ip, fn) == IF ip.builtins = "module" THEN [ip EXCEPT !.import = fn] ELSE ip

\* "__builtins__.__import__ = original_import" (code_execute.py 163-166)
RestoreImport(ip, fn) == SetImport(ip, fn)

\* The result dict of _execute_code (code_execute.py 169-189).
CodeResult(sb, timedout, err) ==
    [stdout |-> sb.stdout, stderr |-> "", execution_time |-> sb.elapsed,
     timeout |-> timedout,
     error |-> IF err # Absent THEN err
               ELSE IF timedout
               THEN "Execution timed out after " \o ToString(sb.timeout) \o " seconds"
               ELSE Absent]

(***************************************************************************)
(* State: the registry of the orchestrator (self.tools), the history of    *)
(* the conversation (self.messages) and the runs of process_query on it;   *)
(* a call of a tool's execute made on its own, the invocation of           *)
(* _execute_code and the interpreter it runs in.                           *)
(***************************************************************************)
VARIABLES tools, messages, run, call, sandbox, interp,
          conversations, orchestrators, requests, uploaded_files, tasks, uploads

\* The state of the application of main.py: the conversation store and the
\* orchestrators it has created, the chat requests, the uploaded files and the
\* cleanup tasks.
appVars == <<conversations, orchestrators, requests, uploaded_files, tasks, uploads>>

vars == <<tools, messages, run, call, sandbox, interp, appVars>>

\* The chat request slot is free.
IdleRequest == [pc |-> "idle", cid |-> Absent, orch |-> 0]

\* main.py as imported: no conversation, no file, nothing in progress.
AppInit ==
    /\ conversations = EmptyDict
    /\ orchestrators = <<>>
    /\ requests = [p \in RunIds |-> IdleRequest]
    /\ uploaded_files = EmptyDict
    /\ tasks = <<>>
    /\ uploads = 0

\* No call of execute has been made.
NoOutcome == [kind |-> "none", value |-> Captured(""), msg |-> ""]
NoValidation == [raised |-> FALSE, msg |-> "", errors |-> <<>>]
NoBackend == [key |-> FALSE, status |-> 0, organic |-> FALSE, entries |-> <<>>]
NoCall ==
    [pc |-> "none", tool |-> "-", params |-> <<>>, validation |-> NoValidation,
     out |-> NoOutcome, backend |-> NoBackend]


\* The context of an invocation of the loop: the query and the results so far
\* (None when there are none yet).
LoopContext(rr) ==
    [keys |-> {"query", "previous_results"}, query |-> rr.query,
     previous_results |-> rr.results, source |-> Absent]

\* The context of the chained pdf_parser call.
ChainContext(rr) ==
    [keys |-> {"query", "source"}, query |-> rr.query,
     previous_results |-> <<>>, source |-> "search_result"]

Call(name, params, ctx, sel, chained) ==
    [tool |-> name, params |-> params, context |-> ctx, sel |-> sel,
     chained |-> chained, outcome |-> "pending"]

\* tool.execute(params, context) is called.
MakeCall(rr, c) == [rr EXCEPT !.calls = Append(@, c)]

\* The pending call (the last one made) has ended.
EndCall(rr, kind) == [rr EXCEPT !.calls[Len(rr.calls)].outcome = kind]

\* The for loop of _execute_tools from the selection at rr.idx up to the next
\* await of a tool's execute.  self.tools[tool_name] raises KeyError for a name
\* that is not registered; the except branch records it (str(e) is the quoted
\* name) and the loop goes on.
RECURSIVE Advance(_, _)
Advance(reg, rr) ==
    IF rr.idx > Len(rr.selected) THEN [rr EXCEPT !.pc = "synthesize"]
    ELSE LET inv == rr.selected[rr.idx] IN
         IF inv.name \notin reg
         THEN Advance(reg,
                      [AppendResult(rr, Pair(inv.name, Captured(inv.name), rr.idx, FALSE))
                         EXCEPT !.idx = @ + 1])
         ELSE [MakeCall(rr, Call(inv.name, inv.params, LoopContext(rr), rr.idx, FALSE))
                 EXCEPT !.pc = "await_tool"]

\* The end of process_query once _execute_tools has returned: _create_response,
\* the append of the assistant message and the return value; an exception of
\* _create_response leaves process_query.
Finish(rr, msgs, s) ==
    LET syn == CreateResponse(rr.query, rr.results, s) IN
    IF syn.raised
    THEN [msgs |-> msgs, rr |-> [rr EXCEPT !.pc = "raised"]]
    ELSE [msgs |-> Append(msgs, AssistantMessage(syn.response)),
          rr |-> [rr EXCEPT !.pc = "returned",
                            !.synth = s,
                            !.ret = [query |-> rr.query,
                                     response |-> syn.response,
                                     tools_used |-> ToolsUsed(rr),
                                     tool_results |-> ToolResults(rr.results)]]]

\* A run goes on until it awaits a tool or ends: the chained call still to make,
\* if any, else the loop from the next selection.
Proceed(r, rr, msgs, s) ==
    IF rr.chain # <<>>
    THEN /\ run' = [run EXCEPT ![r] =
                [MakeCall(rr, Call("pdf_parser", Params(Absent, Head(rr.chain)),
                                   ChainContext(rr), rr.idx, TRUE))
                   EXCEPT !.pc = "await_chain", !.chain = Tail(@)]]
         /\ messages' = msgs
    ELSE LET a == Advance(tools, [rr EXCEPT !.idx = @ + 1]) IN
         IF a.pc = "await_tool"
         THEN /\ run' = [run EXCEPT ![r] = a]
              /\ messages' = msgs
         ELSE LET f == Finish(a, msgs, s) IN
              /\ run' = [run EXCEPT ![r] = f.rr]
              /\ messages' = f.msgs

\* Looking a name up removes it from the mapping.
AfterLookupsPop(reg, names) == reg \ names

\* self.tools[tool_name], "pdf_parser" in self.tools, self.tools["pdf_parser"]:
\* the registry after the lookups of names.
AfterLookups(reg, names) == reg

\* The names looked up while a run went from old to new: the selections the
\* loop came to, and pdf_parser for a chained call.
LookedUp(old, new) ==
    {new.selected[k].name :
         k \in {i \in 1..Len(new.selected) : old.idx < i /\ i <= new.idx}}
    \cup (IF new.pc = "await_chain" THEN {"pdf_parser"} ELSE {})

\* process_query from its call to the first await: the user message is
\* appended, the oracle is asked (outcome o) and the selection computed.
Start(r, q, o, s) ==
    /\ run[r].pc = "idle"
    /\ Proceed(r,
               [IdleRun EXCEPT !.pc = "select", !.query = q, !.oracle = o,
                               !.selected = SelectTools(tools, q, o)],
               Append(messages, UserMessage(q)), s)
    /\ tools' = AfterLookups(tools, LookedUp(run[r], run'[r]))
    /\ UNCHANGED <<call, sandbox, interp, appVars>>

\* Every pdf url found is parsed.
ChainTargetsAll(urls) == urls

\* "pdf_url = pdf_urls[0]": of the pdf urls found, the ones to parse.
ChainTargets(urls) == IF urls # <<>> THEN <<urls[1]>> ELSE <<>>

\* The chained calls a result of tool name asks for.
ChainUrls(reg, name, res) ==
    IF name = "web_search" /\ "pdf_parser" \in reg /\ res.success
    THEN ChainTargets(ExtractPdfUrls(res))
    ELSE <<>>

\* The await of the selected tool's execute ends with outcome out.
ToolReturn(r, out, s) ==
    LET rr == run[r]
        inv == rr.selected[rr.idx]
    IN
    /\ rr.pc = "await_tool"
    /\ out \in ToolOutcomes(inv.name)
    /\ IF out.kind = "raise"
       THEN Proceed(r, AppendResult(EndCall(rr, "raised"),
                                    Pair(inv.name, Captured(out.msg), rr.idx, FALSE)),
                    messages, s)
       ELSE Proceed(r, [AppendResult(EndCall(rr, "returned"),
                                     Pair(inv.name, out.value, rr.idx, FALSE))
                          EXCEPT !.chain = ChainUrls(tools, inv.name, out.value)],
                    messages, s)
    /\ tools' = AfterLookups(tools, LookedUp(run[r], run'[r]))
    /\ UNCHANGED <<call, sandbox, interp, appVars>>

\* The await of the chained pdf_parser execute ends with outcome out; an
\* exception is recorded under the loop's tool_name and ends the iteration.
ChainReturn(r, out, s) ==
    LET rr == run[r]
        inv == rr.selected[rr.idx]
    IN
    /\ rr.pc = "await_chain"
    /\ out \in ToolOutcomes("pdf_parser")
    /\ IF out.kind = "raise"
       THEN Proceed(r, [AppendResult(EndCall(rr, "raised"),
                                     Pair(inv.name, Captured(out.msg), rr.idx, TRUE))
                          EXCEPT !.chain = <<>>],
                    messages, s)
       ELSE Proceed(r, AppendResult(EndCall(rr, "returned"),
                                    Pair("pdf_parser", out.value, rr.idx, TRUE)),
                    messages, s)
    /\ tools' = AfterLookups(tools, LookedUp(run[r], run'[r]))
    /\ UNCHANGED <<call, sandbox, interp, appVars>>

AllOutcomes == UNION {ToolOutcomes(n) : n \in ToolNames}

Init ==
    /\ tools \in Registries
    /\ messages = <<>>
    /\ run = [r \in RunIds |-> IdleRun]
    /\ call = NoCall
    /\ sandbox = IdleSandbox
    /\ interp = [builtins |-> "dict", import |-> "original"]
    /\ AppInit

\* One query on a new conversation, followed to its end.
Submit == \E o \in OracleOutcomes, s \in SynthOutcomes : Start("r1", QueryOf("r1"), o, s)

ToolDone == \E out \in AllOutcomes, s \in SynthOutcomes : ToolReturn("r1", out, s)

ChainDone == \E out \in AllOutcomes, s \in SynthOutcomes : ChainReturn("r1", out, s)

Next == Submit \/ ToolDone \/ ChainDone

Spec == Init /\ [][Next]_vars

(***************************************************************************)
(* Two queries on one conversation of the application (the registry of     *)
(* main.py), their runs overlapping at the awaits.  The oracle names at    *)
(* most one tool.                                                          *)
(***************************************************************************)
ConcOracleOutcomes ==
    {[kind |-> "raise", tools |-> <<>>]}
    \cup {[kind |-> "json", tools |-> t] : t \in SeqsUpTo(ReplyEntries, 1)}

InitConc ==
    /\ tools = ToolNames
    /\ messages = <<>>
    /\ run = [r \in RunIds |-> IdleRun]
    /\ call = NoCall
    /\ sandbox = IdleSandbox
    /\ interp = [builtins |-> "dict", import |-> "original"]
    /\ AppInit

ConcSubmit ==
    \E r \in RunIds, o \in ConcOracleOutcomes, s \in SynthOutcomes :
        Start(r, QueryOf(r), o, s)

ConcToolDone ==
    \E r \in RunIds, out \in AllOutcomes, s \in SynthOutcomes : ToolReturn(r, out, s)

ConcChainDone ==
    \E r \in RunIds, out \in AllOutcomes, s \in SynthOutcomes : ChainReturn(r, out, s)

\* The cancellation is handled like a failure and the reply is produced.
AbandonCaught(rr, msgs) ==
    [rr |-> [rr EXCEPT !.pc = "cancelled"],
     msgs |-> Append(msgs, AssistantMessage([kind |-> "answer", q |-> rr.query]))]

\* CancelledError is raised at the await.  It is a BaseException: no "except
\* Exception" of the tools, of _execute_tools or of the endpoint catches it, and
\* process_query is left with its locals dropped.
Abandon(rr, msgs) == [rr |-> [rr EXCEPT !.pc = "cancelled"], msgs |-> msgs]

\* The caller cancels the run at the await of a tool's execute.
Cancel(r) ==
    /\ run[r].pc \in {"await_tool", "await_chain"}
    /\ LET a == Abandon(EndCall(run[r], "cancelled"), messages) IN
       /\ run' = [run EXCEPT ![r] = a.rr]
       /\ messages' = a.msgs
    /\ UNCHANGED <<tools, call, sandbox, interp, appVars>>

ConcCancel == \E r \in RunIds : Cancel(r)

\* GET /api/conversations/{conversation_id}: the "messages" of the reply.
GetConversation == messages

NextConc == ConcSubmit \/ ConcToolDone \/ ConcChainDone \/ ConcCancel

SpecConc == InitConc /\ [][NextConc]_vars

(***************************************************************************)
(* _execute_tools(selected_tools, query) on every list of invocations,     *)
(* with registered names or not, and process_query after it.               *)
(***************************************************************************)
Invocations ==
    {[name |-> e.name, params |-> e.params] :
         e \in {x \in ReplyEntries : x.dict /\ (x.name = "web_search" => x.params.query # Absent)}}

\* tool_results = await self._execute_tools(selected_tools, query)
ExecuteTools(r, q, sel, s) ==
    /\ run[r].pc = "idle"
    /\ Proceed(r, [IdleRun EXCEPT !.pc = "execute", !.query = q, !.selected = sel],
               Append(messages, UserMessage(q)), s)
    /\ tools' = AfterLookups(tools, LookedUp(run[r], run'[r]))
    /\ UNCHANGED <<call, sandbox, interp, appVars>>

EngineSubmit ==
    \E sel \in SeqsUpTo(Invocations, MaxSel), s \in SynthOutcomes :
        ExecuteTools("r1", QueryOf("r1"), sel, s)

NextEngine == EngineSubmit \/ ToolDone \/ ChainDone

SpecEngine == Init /\ [][NextEngine]_vars

(***************************************************************************)
(* _select_tools on its own, over every query the endpoint accepts (the    *)
(* request model takes any str, the empty one too) and over replies whose  *)
(* web_search entry carries "query": "".                                   *)
(***************************************************************************)
SelectQueries == {QueryOf("r1"), ""}

SelectReplyEntries ==
    ReplyEntries
    \cup {[dict |-> TRUE, name |-> "web_search", params |-> Params("", NoLink)]}

SelectOracleOutcomes ==
    {[kind |-> "raise", tools |-> <<>>], [kind |-> "unparsable", tools |-> <<>>]}
    \cup {[kind |-> "json", tools |-> t] : t \in SeqsUpTo(SelectReplyEntries, MaxSel)}

\* selected_tools = self._select_tools(query)
Select(r, q, o) ==
    /\ run[r].pc = "idle"
    /\ run' = [run EXCEPT ![r] = [IdleRun EXCEPT !.pc = "select", !.query = q,
                                                  !.oracle = o,
                                                  !.selected = SelectTools(tools, q, o)]]
    /\ UNCHANGED <<tools, messages, call, sandbox, interp, appVars>>

SelectStep == \E q \in SelectQueries, o \in SelectOracleOutcomes : Select("r1", q, o)

NextSelect == SelectStep

SpecSelect == Init /\ [][NextSelect]_vars

(***************************************************************************)
(* A call of execute(params) on a tool, for every mapping of a few entries *)
(* over the declared names and an undeclared one.  The call validates the  *)
(* mapping and then answers: with the validation failure, or by going on   *)
(* into the tool's work.                                                   *)
(***************************************************************************)
MaxParams == 2

\* The tool of the declaration with two required parameters.
CopyTool == "copy"

CallTools == ToolNames \cup {CopyTool}

Values == {StrV("x"), StrV("summary"), IntV(0), IntV(5), IntV(99), ListV}

EntryNames(tool) == DeclaredNames(Declaration(tool)) \cup {"bogus"}

ValuesOf(tool, name) ==
    IF tool = "code_execute" /\ name = "code"
    THEN {StrV(sc.text) : sc \in Scripts} \cup {IntV(5)}
    ELSE Values

Entries(tool) ==
    UNION {{[name |-> n, value |-> v] : v \in ValuesOf(tool, n)} : n \in EntryNames(tool)}

Mappings(tool) ==
    {p \in SeqsUpTo(Entries(tool), MaxParams) :
         \A i, j \in 1..Len(p) : i # j => p[i].name # p[j].name}

\* params[name]
ParamValue(params, name) ==
    params[CHOOSE i \in 1..Len(params) : params[i].name = name].value

\* The separator of the join of the errors.
Separator(tool) == IF tool = "data_analysis" THEN ", " ELSE ","

\* execute is in the work of the tool.
InBody == [kind |-> "body", value |-> Captured(""), msg |-> ""]

\* params.get(name): the value, or None.
NoneV == [t |-> "none", s |-> "", n |-> 0]
Get(params, name) == IF name \in Supplied(params) THEN ParamValue(params, name) ELSE NoneV

\* bool(v)
Truthy(v) ==
    CASE v.t = "none" -> FALSE
      [] v.t = "str" -> v.s # ""
      [] v.t = "int" -> v.n # 0
      [] OTHER -> TRUE

EitherMsg == "Either 'file_path' or 'url' must be provided"
UrlAndPathMsg == "Url and file_path is required"

\* execute from the validation on to the work of the tool: the validation
\* failure is returned; the sandbox calls self.check_code_security, which
\* CodeExecuteTool does not have (its method is _check_code_security), outside
\* of any try; data_analysis and pdf_parser look for their source.
Respond(tool, v, params) ==
    IF v.errors # <<>>
    THEN Returned(FormatError(tool, Join(v.errors, Separator(tool))))
    ELSE CASE tool = "code_execute" -> Raised(NoSecurityCheck)
           [] tool = "data_analysis" ->
                  IF ~Truthy(Get(params, "file_path")) /\ ~Truthy(Get(params, "file_path"))
                  THEN Returned(FormatError(tool, EitherMsg))
                  ELSE InBody
           [] tool = "pdf_parser" ->
                  IF ~Truthy(Get(params, "url")) /\ ~Truthy(Get(params, "file_path"))
                  THEN Returned(FormatError(tool, UrlAndPathMsg))
                  ELSE InBody
           [] OTHER -> InBody

\* What the search backend does with a request.
Backends ==
    {[NoBackend EXCEPT !.status = 200],
     [NoBackend EXCEPT !.key = TRUE, !.status = 500],
     [NoBackend EXCEPT !.key = TRUE, !.status = 200]}
    \cup {[key |-> TRUE, status |-> 200, organic |-> TRUE, entries |-> es] : es \in EntryLists}

NoFormatResults == "'WebSearchTool' object has no attribute 'format_results'"
SliceTypeError == "slice indices must be integers or None or have an __index__ method"

\* search_serapi(query, num_results) against backend b: the dict it returns or
\* the message of the exception it raises.  The slice of the organic results is
\* taken with the str "num_results".
SearchSerapi(b) ==
    IF ~b.key THEN [raised |-> TRUE, msg |-> "No SerAPI key configured", entries |-> <<>>]
    ELSE IF b.status # 200
    THEN [raised |-> TRUE, msg |-> "API error: " \o ToString(b.status) \o " - ", entries |-> <<>>]
    ELSE IF b.organic
    THEN [raised |-> TRUE, msg |-> SliceTypeError, entries |-> <<>>]
    ELSE [raised |-> FALSE, msg |-> "", entries |-> <<>>]

\* The try block of WebSearchTool.execute: "return self.format_results(results)"
\* names a method the tool does not have; every exception is returned as error.
WebSearchBody(b) ==
    LET s == SearchSerapi(b) IN
    Returned(FormatError("web_search", IF s.raised THEN s.msg ELSE NoFormatResults))

NoBytes == "a bytes-like object is required, not 'NoneType'"

\* The try block of DataAnalysisTool.execute and of PDFParserTool.execute: what
\* the work can end with.  _download_file of data_analysis returns None, which
\* _save_temp_file cannot write.
WorkOutcomes(tool, params) ==
    IF tool = "data_analysis" /\ Truthy(Get(params, "url"))
    THEN {Returned(FormatError(tool, NoBytes)),
          Returned(FormatError(tool, "Failed to download file: HTTP 404"))}
    ELSE {Returned(FormatResult(tool, NoPayload, TRUE)),
          Returned(FormatError(tool, "Exception: failed"))}

\* errors = self.validate_params(params); its exception leaves execute.
ExecuteValidate ==
    /\ call.pc = "called"
    /\ LET v == ValidateParams(Declaration(call.tool), call.params) IN
       call' = [call EXCEPT !.pc = IF v.raised THEN "ended" ELSE "validated",
                            !.validation = v,
                            !.out = IF v.raised THEN Raised(v.msg) ELSE @]
    /\ UNCHANGED <<tools, messages, run, sandbox, interp, appVars>>

ExecuteRespond ==
    /\ call.pc = "validated"
    /\ call.tool \in ToolNames
    /\ LET out == Respond(call.tool, call.validation, call.params) IN
       call' = [call EXCEPT !.pc = IF out.kind = "body" THEN "body" ELSE "ended",
                            !.out = out]
    /\ UNCHANGED <<tools, messages, run, sandbox, interp, appVars>>

\* WebSearchTool.execute from "results = await self.search_serapi(...)" on.
ExecuteSearch ==
    /\ call.pc = "body"
    /\ call.tool = "web_search"
    /\ \E b \in Backends :
           call' = [call EXCEPT !.pc = "ended", !.backend = b, !.out = WebSearchBody(b)]
    /\ UNCHANGED <<tools, messages, run, sandbox, interp, appVars>>

\* The work of data_analysis and of pdf_parser to the return of execute.
ExecuteWork ==
    /\ call.pc = "body"
    /\ call.tool \in {"data_analysis", "pdf_parser"}
    /\ \E out \in WorkOutcomes(call.tool, call.params) :
           call' = [call EXCEPT !.pc = "ended", !.out = out]
    /\ UNCHANGED <<tools, messages, run, sandbox, interp, appVars>>

\* The calls made: execute(params) on a tool.
Calls ==
    UNION {{[NoCall EXCEPT !.pc = "called", !.tool = t, !.params = p] : p \in Mappings(t)} :
               t \in CallTools}

InitExecute ==
    /\ tools = ToolNames
    /\ messages = <<>>
    /\ run = [r \in RunIds |-> IdleRun]
    /\ call \in Calls
    /\ sandbox = IdleSandbox
    /\ interp = [builtins |-> "dict", import |-> "original"]
    /\ AppInit

NextExecute == ExecuteValidate \/ ExecuteRespond \/ ExecuteSearch \/ ExecuteWork

SpecExecute == InitExecute /\ [][NextExecute]_vars

(***************************************************************************)
(* _execute_code(code, timeout), called with what a validated mapping      *)
(* gives it, one call after the other in one interpreter.  exec runs the   *)
(* script in the calling thread; elapsed is time.time() - start_time.      *)
(***************************************************************************)
SandboxTimeouts == {1, 2}

\* The statement the script is at.
Current(sb) == ScriptOf(sb.code).stmts[sb.pos]

AtStatement(sb) == sb.pc = "running" /\ sb.pos <= Len(ScriptOf(sb.code).stmts)

\* From the script's end or its Exception to the return of the result dict.
Leave(sb, timedout, err) ==
    [sb EXCEPT !.pc = "done", !.result = CodeResult(sb, timedout, err)]

\* _execute_code up to the call of exec: original_import is taken, the import
\* function replaced and the loop condition evaluated (no time has passed).
ExecuteCodeBegin(code, timeout) ==
    /\ sandbox.pc = "idle"
    /\ LET sb == [IdleSandbox EXCEPT !.code = code, !.timeout = timeout,
                                     !.original_import = interp.import, !.pos = 1]
           ip == SetImport(interp, "secure")
       IN
       IF sb.elapsed < timeout
       THEN sandbox' = [sb EXCEPT !.pc = "running"] /\ interp' = ip
       ELSE sandbox' = Leave(sb, TRUE, Absent)
            /\ interp' = RestoreImport(ip, sb.original_import)
    /\ UNCHANGED <<tools, messages, run, call, appVars>>

\* The script runs a statement that does not end it.
ExecStatement ==
    /\ AtStatement(sandbox)
    /\ LET st == Current(sandbox) IN
       \/ /\ st.op = "import"
          /\ ImportWith(interp.import, st.arg).ok
          /\ sandbox' = [sandbox EXCEPT !.pos = @ + 1,
                                        !.imports = Append(@, [name |-> st.arg, ok |-> TRUE])]
       \/ /\ st.op = "print"
          /\ sandbox' = [sandbox EXCEPT !.pos = @ + 1, !.stdout = @ \o st.arg]
       \/ /\ st.op = "work"
          /\ sandbox' = [sandbox EXCEPT !.pos = @ + 1, !.elapsed = @ + 1]
    /\ UNCHANGED <<tools, messages, run, call, interp, appVars>>

\* The script raises an Exception (its own, or the ImportError of the import
\* function): "except Exception as e: execution_error = e; break".
ExecRaises ==
    /\ AtStatement(sandbox)
    /\ LET st == Current(sandbox) IN
       \/ /\ st.op = "import"
          /\ ~ImportWith(interp.import, st.arg).ok
          /\ sandbox' = Leave([sandbox EXCEPT !.imports =
                                   Append(@, [name |-> st.arg, ok |-> FALSE])],
                              FALSE, ImportWith(interp.import, st.arg).msg)
       \/ /\ st.op = "raise"
          /\ sandbox' = Leave(sandbox, FALSE, st.arg)
    /\ interp' = RestoreImport(interp, sandbox.original_import)
    /\ UNCHANGED <<tools, messages, run, call, appVars>>

\* The script raises a BaseException that is no Exception: no handler of
\* _execute_code catches it and the statements after the with block are skipped.
ExecEscapes ==
    /\ AtStatement(sandbox)
    /\ Current(sandbox).op = "raise_base"
    /\ sandbox' = [sandbox EXCEPT !.pc = "escaped"]
    /\ UNCHANGED <<tools, messages, run, call, interp, appVars>>

\* The script has run to its end: "exec_with_timeout(); break".
ExecuteCodeEnd ==
    /\ sandbox.pc = "running"
    /\ sandbox.pos > Len(ScriptOf(sandbox.code).stmts)
    /\ sandbox' = Leave(sandbox, FALSE, Absent)
    /\ interp' = RestoreImport(interp, sandbox.original_import)
    /\ UNCHANGED <<tools, messages, run, call, appVars>>

\* The caller has the result, or the exception, of _execute_code.
ExecuteCodeLeft ==
    /\ sandbox.pc \in {"done", "escaped"}
    /\ sandbox' = IdleSandbox
    /\ UNCHANGED <<tools, messages, run, call, interp, appVars>>

InitSandbox ==
    /\ tools = ToolNames
    /\ messages = <<>>
    /\ run = [r \in RunIds |-> IdleRun]
    /\ call = NoCall
    /\ sandbox = IdleSandbox
    /\ interp \in Interpreters
    /\ AppInit

ExecuteCodeCalled ==
    \E sc \in Scripts, t \in SandboxTimeouts : ExecuteCodeBegin(sc.text, t)

NextSandbox ==
    \/ ExecuteCodeCalled
    \/ ExecStatement
    \/ ExecRaises
    \/ ExecEscapes
    \/ ExecuteCodeEnd
    \/ ExecuteCodeLeft

SpecSandbox == InitSandbox /\ [][NextSandbox]_vars

(***************************************************************************)
(* The conversation store of main.py.  An orchestrator is an object: the   *)
(* store and a chat request in progress hold references to it, its place   *)
(* in orchestrators.  Bookkeeping beside the fields of the code: deleted,  *)
(* set when delete_conversation takes the object out of the store; by,    *)
(* the orchestrator that served the request a message comes from; late,    *)
(* whether the message was appended to an orchestrator already deleted.    *)
(* A chat request is process_query of main.py; the run of the orchestrator *)
(* between its two appends is left out.                                    *)
(***************************************************************************)
MaxChats == 3

\* The conversation ids a client sends: none, the empty string, one of its own
\* choosing, or one it was given in a response.
NoId == Absent
ClientIds == {NoId, "", "c1"}

\* str(uuid.uuid4()) of the n-th orchestrator created
Uuid(n) == "uuid-" \o ToString(n)

\* AgentOrchestrator(tools=tools), conversation_id set afterwards
NewOrchestrator(id) == [conversation_id |-> id, messages |-> <<>>, deleted |-> FALSE]

\* d.pop(k, None)
Pop(d, k) == [n \in DOMAIN d \ {k} |-> d[n]]

\* get_orchestrator past its first return: a new orchestrator, under the id
\* given or else under its own uuid.
CreateOrchestrator(conv, orchs, cid) ==
    LET n == Len(orchs) + 1
        id == IF cid \notin {NoId, ""} THEN cid ELSE Uuid(n)
    IN [orch |-> n, conversations |-> Put(conv, id, n),
        orchestrators |-> Append(orchs, NewOrchestrator(id))]

\* Every request gets a new orchestrator.
GetOrchestratorAlwaysNew(conv, orchs, cid) == CreateOrchestrator(conv, orchs, cid)

\* get_orchestrator(conversation_id)
GetOrchestrator(conv, orchs, cid) ==
    IF cid \notin {NoId, ""} /\ cid \in DOMAIN conv
    THEN [orch |-> conv[cid], conversations |-> conv, orchestrators |-> orchs]
    ELSE CreateOrchestrator(conv, orchs, cid)

\* The reply goes to the orchestrator stored under the id of the request.
ReplyTargetById(rq, conv) == IF rq.cid \in DOMAIN conv THEN conv[rq.cid] ELSE rq.orch

\* "await orchestrator.process_query(...)": the orchestrator whose messages the
\* run appends to is the one the request got from get_orchestrator.
ReplyTarget(rq, conv) == rq.orch

\* The chat requests made so far: each has appended one user message.
RECURSIVE Chats(_)
Chats(orchs) ==
    IF orchs = <<>> THEN 0
    ELSE Len(SelectSeq(Head(orchs).messages, LAMBDA m : m.role = "user")) + Chats(Tail(orchs))

\* The query clients send and the response the run produces for it.
StoreQuery == "q1"
StoreReply == "a1"

StoreMessage(role, q, o) == [role |-> role, content |-> q, by |-> o, late |-> FALSE]

\* POST /api/chat up to the first await of the run: the orchestrator is looked
\* up or created and the user message appended.
Chat(p, cid) ==
    /\ requests[p].pc = "idle"
    /\ LET g == GetOrchestrator(conversations, orchestrators, cid) IN
       /\ Chats(orchestrators) < MaxChats
       /\ conversations' = g.conversations
       /\ orchestrators' = [g.orchestrators EXCEPT ![g.orch].messages =
                                Append(@, StoreMessage("user", StoreQuery, g.orch))]
       /\ requests' = [requests EXCEPT ![p] = [pc |-> "awaiting", cid |-> cid, orch |-> g.orch]]
    /\ UNCHANGED <<tools, messages, run, call, sandbox, interp, uploaded_files, tasks, uploads>>

\* The run returns: the assistant message is appended and the result returned.
ChatReturn(p) ==
    /\ requests[p].pc = "awaiting"
    /\ LET o == ReplyTarget(requests[p], conversations) IN
       orchestrators' = [orchestrators EXCEPT ![o].messages =
                             Append(@, [StoreMessage("assistant", StoreReply, requests[p].orch)
                                          EXCEPT !.late = orchestrators[o].deleted])]
    /\ requests' = [requests EXCEPT ![p] = IdleRequest]
    /\ UNCHANGED <<tools, messages, run, call, sandbox, interp, conversations,
                   uploaded_files, tasks, uploads>>

\* The run raises or is cancelled: HTTP 500, or nothing, goes to the client.
ChatFail(p) ==
    /\ requests[p].pc = "awaiting"
    /\ requests' = [requests EXCEPT ![p] = IdleRequest]
    /\ UNCHANGED <<tools, messages, run, call, sandbox, interp, conversations,
                   orchestrators, uploaded_files, tasks, uploads>>

\* DELETE /api/conversations/{conversation_id}
DeleteConversation(cid) ==
    /\ conversations' = Pop(conversations, cid)
    /\ orchestrators' = IF cid \in DOMAIN conversations
                        THEN [orchestrators EXCEPT ![conversations[cid]].deleted = TRUE]
                        ELSE orchestrators
    /\ UNCHANGED <<tools, messages, run, call, sandbox, interp, requests,
                   uploaded_files, tasks, uploads>>

\* GET /api/conversations/{conversation_id}: the messages, or 404.
GetConversationOf(cid) ==
    IF cid \notin DOMAIN conversations
    THEN [status |-> 404, messages |-> <<>>]
    ELSE [status |-> 200, messages |-> orchestrators[conversations[cid]].messages]

\* The ids in use: what clients choose and what responses have told them.
KnownIds == ClientIds \cup {orchestrators[i].conversation_id : i \in 1..Len(orchestrators)}

StoreChat == \E p \in RunIds, cid \in KnownIds : Chat(p, cid)

StoreReturn == \E p \in RunIds : ChatReturn(p)

StoreFail == \E p \in RunIds : ChatFail(p)

\* For an id that is not stored the pop changes nothing.
StoreDelete == \E cid \in DOMAIN conversations : DeleteConversation(cid)

NextStore == StoreChat \/ StoreReturn \/ StoreFail \/ StoreDelete

SpecStore == InitConc /\ [][NextStore]_vars

(***************************************************************************)
(* The uploaded files of main.py.  The record of a file holds the path of  *)
(* its temporary file, here the number of the upload that made it.         *)
(* delete_file hands the removal to a background task, which runs after    *)
(* the response.                                                           *)
(***************************************************************************)
MaxUploads == 4
MaxTasks == 2

\* f"file_{len(uploaded_files) + 1}"
FileId(files) == "file_" \o ToString(Cardinality(DOMAIN files) + 1)

\* POST /api/upload
UploadFile ==
    /\ uploads < MaxUploads
    /\ uploads' = uploads + 1
    /\ uploaded_files' = Put(uploaded_files, FileId(uploaded_files), [path |-> uploads + 1])
    /\ UNCHANGED <<tools, messages, run, call, sandbox, interp, conversations,
                   orchestrators, requests, tasks>>

\* DELETE /api/upload/{file_id} for a stored file: the cleanup is scheduled.
DeleteFile(fid) ==
    /\ fid \in DOMAIN uploaded_files
    /\ Len(tasks) < MaxTasks
    /\ tasks' = Append(tasks, <<fid>>)
    /\ UNCHANGED <<tools, messages, run, call, sandbox, interp, conversations,
                   orchestrators, requests, uploaded_files, uploads>>

\* cleanup_temp_files(file_ids): the records are popped.
RECURSIVE PopAll(_, _)
PopAll(files, ids) == IF ids = <<>> THEN files ELSE PopAll(Pop(files, Head(ids)), Tail(ids))

\* The k-th scheduled task runs.
CleanupTempFiles(k) ==
    /\ uploaded_files' = PopAll(uploaded_files, tasks[k])
    /\ tasks' = SubSeq(tasks, 1, k - 1) \o SubSeq(tasks, k + 1, Len(tasks))
    /\ UNCHANGED <<tools, messages, run, call, sandbox, interp, conversations,
                   orchestrators, requests, uploads>>

FilesDelete == \E fid \in DOMAIN uploaded_files : DeleteFile(fid)

FilesCleanup == \E k \in 1..Len(tasks) : CleanupTempFiles(k)

NextFiles == UploadFile \/ FilesDelete \/ FilesCleanup

SpecFiles == InitConc /\ [][NextFiles]_vars

(***************************************************************************)
(* Properties.                                                             *)
(***************************************************************************)
Ended(rr) == rr.pc \in {"returned", "raised"}

IsMain(p) == ~p.chained

\* C1: the results of the selected invocations stand in the result sequence in
\* the order of the selection list, one per selection processed, and the result
\* of a chained call stands immediately after the successful web_search result
\* that triggered it.
C1_ResultOrder ==
    \A r \in RunIds :
        LET rr == run[r]
            res == rr.results
            main == SelectSeq(res, IsMain)
        IN
        /\ Len(main) <= Len(rr.selected)
        /\ \A i \in 1..Len(main) :
               main[i].sel = i /\ main[i].name = rr.selected[i].name
        /\ Ended(rr) => Len(main) = Len(rr.selected)
        /\ \A k \in 1..Len(res) :
               res[k].chained =>
                   /\ k > 1
                   /\ ~res[k - 1].chained
                   /\ res[k - 1].name = "web_search"
                   /\ res[k - 1].res.success
                   /\ res[k - 1].sel = res[k].sel

\* A run of two selections has ended with a chained result between their results.
C1_Witness ==
    \E r \in RunIds :
        /\ run[r].pc = "returned"
        /\ Len(run[r].selected) = 2
        /\ \E k \in 1..(Len(run[r].results) - 1) :
               run[r].results[k].chained /\ run[r].results[k].res.success

OracleFailed(o) ==
    \/ o.kind \in {"raise", "unparsable"}
    \/ o.kind = "json" /\ \E i \in 1..Len(o.tools) : ~o.tools[i].dict

\* C3: when the oracle fails the selection is exactly web_search with the raw
\* query if web_search is registered, and empty otherwise.
C3_FallbackOnOracleFailure ==
    \A r \in RunIds :
        LET rr == run[r] IN
        (rr.pc # "idle" /\ OracleFailed(rr.oracle)) =>
            rr.selected =
                IF "web_search" \in tools
                THEN <<[name |-> "web_search",
                        params |-> [query |-> rr.query, url |-> NoLink]]>>
                ELSE <<>>

\* The oracle's list broke off after a registered selection and the run went on
\* with the fallback.
C3_Witness ==
    \E r \in RunIds :
        /\ run[r].pc # "idle"
        /\ run[r].oracle.kind = "json"
        /\ Len(run[r].oracle.tools) = 2
        /\ run[r].oracle.tools[1].name = "pdf_parser"
        /\ ~run[r].oracle.tools[2].dict
        /\ {"web_search", "pdf_parser"} \subseteq tools
        /\ Len(run[r].selected) = 1

WellFormed(o) == o.kind = "json" /\ \A i \in 1..Len(o.tools) : o.tools[i].dict

\* C4: a well-formed reply without a valid selection, web_search being
\* registered, gives the fallback selection.
C4_FallbackOnEmptySelection ==
    \A r \in RunIds :
        LET rr == run[r] IN
        (/\ rr.pc # "idle"
         /\ WellFormed(rr.oracle)
         /\ \A i \in 1..Len(rr.oracle.tools) : rr.oracle.tools[i].name \notin tools
         /\ "web_search" \in tools) =>
            rr.selected = <<[name |-> "web_search",
                             params |-> [query |-> rr.query, url |-> NoLink]]>>

\* C5: tools_used is the sequence of the tool names of the result sequence.
C5_ToolsUsedIsResultNames ==
    \A r \in RunIds :
        run[r].pc = "returned" =>
            run[r].ret.tools_used =
                [i \in 1..Len(run[r].results) |-> run[r].results[i].name]

\* C6: in the history every user message but a last one is followed by the
\* assistant reply to the same query.
C6_HistorySerialized ==
    \A i \in 1..(Len(messages) - 1) :
        messages[i].role = "user" =>
            /\ messages[i + 1].role = "assistant"
            /\ messages[i + 1].content.q = messages[i].content.q

\* C7: process_query never ends by an exception, and when it returns the history
\* has grown by the user message and one assistant message, the fallback text if
\* the synthesizer failed.
C7_AlwaysReturns ==
    \A r \in RunIds :
        LET rr == run[r] IN
        /\ rr.pc # "raised"
        /\ rr.pc = "returned" =>
               /\ messages = <<UserMessage(rr.query), AssistantMessage(rr.ret.response)>>
               /\ rr.synth = "fail" => rr.ret.response.kind = "fallback"

ChainedCalls(rr, i) ==
    {j \in 1..Len(rr.calls) : rr.calls[j].chained /\ rr.calls[j].sel = i}

\* C8: no selection has more than one chained call.
C8_AtMostOneChained ==
    \A r \in RunIds :
        \A i \in 1..Len(run[r].selected) : Cardinality(ChainedCalls(run[r], i)) <= 1

\* A search result with two pdf links was chained and the run has ended.
C8_Witness ==
    \E r \in RunIds :
        /\ Ended(run[r])
        /\ \E k \in 1..Len(run[r].results) :
               LET p == run[r].results[k] IN
               /\ ~p.chained
               /\ p.name = "web_search"
               /\ p.res.success
               /\ Len(SelectSeq(p.res.payload.entries, IsPdfLink)) = 2
               /\ ChainedCalls(run[r], p.sel) # {}

FirstPdf(es) ==
    es[CHOOSE i \in 1..Len(es) :
           IsPdfLink(es[i]) /\ \A j \in 1..(i - 1) : ~IsPdfLink(es[j])]

\* C9: a successful web_search result that has an entry with a pdf link, with
\* pdf_parser registered, has a chained pdf_parser call on the first such link;
\* any other result has no chained call.
C9_ChainOnFirstPdfLink ==
    \A r \in RunIds :
        LET rr == run[r] IN
        \A k \in 1..Len(rr.results) :
            LET p == rr.results[k]
                es == p.res.payload.entries
                due == /\ p.name = "web_search"
                       /\ p.res.success
                       /\ "pdf_parser" \in tools
                       /\ \E i \in 1..Len(es) : IsPdfLink(es[i])
            IN
            ~p.chained =>
                IF due
                THEN \E j \in ChainedCalls(rr, p.sel) :
                         /\ rr.calls[j].tool = "pdf_parser"
                         /\ rr.calls[j].params.url = FirstPdf(es)
                ELSE ChainedCalls(rr, p.sel) = {}

Registered(e) == e.name \in tools

\* C10: every selection names a registered tool, and from a well-formed reply
\* the selection is the reply's entries with a registered name, in the reply's
\* order, their parameters as given (web_search with the query filled in).
C10_OnlyRegisteredSelected ==
    \A r \in RunIds :
        LET rr == run[r]
            kept == SelectSeq(rr.oracle.tools, Registered)
        IN
        rr.pc # "idle" =>
            /\ \A i \in 1..Len(rr.selected) : rr.selected[i].name \in tools
            /\ WellFormed(rr.oracle) =>
                   /\ Len(rr.selected) = Len(kept)
                   /\ \A i \in 1..Len(kept) :
                          /\ rr.selected[i].name = kept[i].name
                          /\ rr.selected[i].params.url = kept[i].params.url
                          /\ rr.selected[i].params.query =
                                 IF kept[i].name = "web_search"
                                    /\ kept[i].params.query = Absent
                                 THEN rr.query
                                 ELSE kept[i].params.query

\* The reply named an unregistered tool and then a registered one.
C10_Witness ==
    \E r \in RunIds :
        /\ run[r].pc # "idle"
        /\ WellFormed(run[r].oracle)
        /\ Len(run[r].oracle.tools) = 2
        /\ run[r].oracle.tools[1].name \notin tools
        /\ run[r].oracle.tools[2].name \in tools
        /\ Len(run[r].selected) = 1

\* C11: every web_search selection carries a query that is neither missing nor
\* the empty string.
C11_SearchQueryNonEmpty ==
    \A r \in RunIds :
        \A i \in 1..Len(run[r].selected) :
            run[r].selected[i].name = "web_search" =>
                run[r].selected[i].params.query \notin {Absent, ""}

\* The call has passed the validation of its mapping.
Validated == call.pc = "ended" /\ ~call.validation.raised /\ call.validation.errors = <<>>

\* The script of a validated call of code_execute.
CalledScript == ScriptOf(ParamValue(call.params, "code").s)

\* C12: a validated call of code_execute on a script with a denylisted import,
\* a denylisted attribute access or eval( / exec( / __import__( returns a failed
\* result whose diagnostic is a security error, and the script has not run.
C12_DeniedScriptRejected ==
    (/\ call.tool = "code_execute"
     /\ Validated
     /\ CheckCodeSecurity(CalledScript.text) # {}) =>
        /\ call.out.kind = "return"
        /\ ~call.out.value.success
        /\ Contains(call.out.value.diag, "Security error")
        /\ sandbox = IdleSandbox

ImportsOnlyAllowed(sc) ==
    \A i \in 1..Len(sc.stmts) :
        sc.stmts[i].op = "import" => SecureImport(sc.stmts[i].arg).ok

\* C13: a validated call of code_execute on a script that passes the scan and
\* imports only modules of the allow-list returns a successful result.
C13_AllowedScriptSucceeds ==
    (/\ call.tool = "code_execute"
     /\ Validated
     /\ CheckCodeSecurity(CalledScript.text) = {}
     /\ ImportsOnlyAllowed(CalledScript)
     /\ \A i \in 1..Len(CalledScript.stmts) : CalledScript.stmts[i].op \in {"import", "print"}) =>
        /\ call.out.kind = "return"
        /\ call.out.value.success

\* C14: a script is never running past the timeout, and the result of a script
\* that ran that long is flagged as a timeout with an elapsed time of at least
\* the bound.
C14_AbandonedAtTimeout ==
    /\ sandbox.pc = "running" => sandbox.elapsed <= sandbox.timeout
    /\ (sandbox.pc = "done" /\ sandbox.elapsed > sandbox.timeout) =>
           /\ sandbox.result.timeout
           /\ sandbox.result.execution_time >= sandbox.timeout

\* C15: an import of a running script succeeds only for a module of the
\* allow-list or a submodule of one; every other import has failed.
C15_OnlyAllowedImports ==
    \A i \in 1..Len(sandbox.imports) :
        sandbox.imports[i].ok =>
            \/ sandbox.imports[i].name \in AllowedModules
            \/ \E m \in AllowedModules : StartsWith(sandbox.imports[i].name, m \o ".")

\* C16: outside of an invocation of _execute_code the import function of the
\* process is the original one.
C16_RestrictionScoped ==
    sandbox.pc # "running" => interp.import = "original"

\* validate_params has ended on the call's mapping.
ValidationEnded == call.pc \in {"validated", "ended"}

\* C17: validate_params does not raise, and the execute of a mapping with
\* violations returns a failed result whose diagnostic contains every entry of
\* the error list.
C17_ValidationFailureReturned ==
    ValidationEnded =>
        /\ ~call.validation.raised
        /\ (call.pc = "ended" /\ call.validation.errors # <<>>) =>
               /\ call.out.kind = "return"
               /\ ~call.out.value.success
               /\ \A k \in 1..Len(call.validation.errors) :
                      Contains(call.out.value.diag, call.validation.errors[k])

\* The required parameters the call's mapping does not supply.
MissingRequired ==
    LET decl == Declaration(call.tool) IN
    {decl[i].name : i \in {j \in 1..Len(decl) :
                               decl[j].required /\ decl[j].name \notin Supplied(call.params)}}

ErrorSet == {call.validation.errors[k] : k \in 1..Len(call.validation.errors)}

C19_UnknownAlwaysNamed ==
    ValidationEnded =>
        \A n \in Supplied(call.params) \ DeclaredNames(Declaration(call.tool)) :
            ~call.validation.raised /\ UnknownMsg(n) \in ErrorSet

\* C20: _create_response does not raise, and when the call of the language
\* model fails the response is the fallback text.
C20_SynthesizerNeverRaises ==
    \A r \in RunIds :
        Ended(run[r]) =>
            /\ run[r].pc = "returned"
            /\ run[r].synth = "fail" => run[r].ret.response.kind = "fallback"

\* C21: every failed result of a result sequence carries its diagnostic, a
\* string, under the payload entry of the result ("result").
C21_DiagnosticInPayload ==
    \A r \in RunIds :
        \A k \in 1..Len(run[r].results) :
            ~run[r].results[k].res.success => run[r].results[k].res.key = "result"

\* C22: the tool_results mapping of a returned run has exactly the tool names of
\* the result sequence as keys, each with the result of its last occurrence.
C22_LastOccurrenceWins ==
    \A r \in RunIds :
        run[r].pc = "returned" =>
            /\ DOMAIN run[r].ret.tool_results = Names(run[r].results)
            /\ \A n \in Names(run[r].results) :
                   run[r].ret.tool_results[n] =
                       run[r].results[LastIndex(run[r].results, n)].res

\* A returned run whose result sequence has a tool name twice, with different
\* results.
C22_Witness ==
    \E r \in RunIds :
        /\ run[r].pc = "returned"
        /\ \E i, j \in 1..Len(run[r].results) :
               /\ i < j
               /\ run[r].results[i].name = run[r].results[j].name
               /\ run[r].results[i].res # run[r].results[j].res

ReturnedRuns == {r \in RunIds : run[r].pc = "returned"}

\* C23: once the queries made on the conversation have all completed, the
\* history read back is their (user, assistant) pairs, one after the other.
C23_HistoryIsPairs ==
    (\A r \in RunIds : run[r].pc \in {"idle", "returned"}) =>
        /\ Len(GetConversation) = 2 * Cardinality(ReturnedRuns)
        /\ \A k \in 1..Cardinality(ReturnedRuns) :
               /\ GetConversation[2 * k - 1].role = "user"
               /\ GetConversation[2 * k].role = "assistant"
               /\ GetConversation[2 * k].content.q = GetConversation[2 * k - 1].content.q

\* C24: the history holds no assistant message of a cancelled run, and the run
\* has returned nothing.
C24_AbandonedLeavesNoReply ==
    \A r \in RunIds :
        run[r].pc = "cancelled" =>
            /\ run[r].ret = NoRet
            /\ \A i \in 1..Len(messages) :
                   messages[i].role = "assistant" => messages[i].content.q # run[r].query

\* A run was cancelled at the chained call, with a result collected, and the
\* other run of the conversation has returned.
C24_Witness ==
    \E r, o \in RunIds :
        /\ run[r].pc = "cancelled"
        /\ Len(run[r].results) > 0
        /\ run[r].calls[Len(run[r].calls)].chained
        /\ run[o].pc = "returned"

\* C25: an invocation whose tool name is not registered has no result in the
\* result sequence, and the invocations after it have theirs.
C25_UnregisteredSkipped ==
    \A r \in RunIds :
        \A i \in 1..Len(run[r].selected) :
            /\ run[r].selected[i].name \notin tools =>
                   \A k \in 1..Len(run[r].results) : run[r].results[k].sel # i
            /\ (Ended(run[r]) /\ run[r].selected[i].name \in tools) =>
                   \E k \in 1..Len(run[r].results) : run[r].results[k].sel = i

\* The results a run had collected when it made the call c.
CollectedBefore(rr, c) ==
    SelectSeq(rr.results,
              LAMBDA p : p.sel < c.sel \/ (c.chained /\ p.sel = c.sel /\ ~p.chained))

\* C27: the context of every execute call of a run, chained or not, holds the
\* query of the run and the results the run had collected before the call.
C27_ContextOfRun ==
    \A r \in RunIds :
        \A j \in 1..Len(run[r].calls) :
            LET c == run[r].calls[j] IN
            /\ c.context.query = run[r].query
            /\ "previous_results" \in c.context.keys
            /\ c.context.previous_results = CollectedBefore(run[r], c)

\* C28: a call of code_execute ends by returning a result (a validation
\* failure, a security rejection, a timeout, a runtime error or a success), and
\* no script has run for a mapping that failed the validation.
C28_InvocationEndsInResult ==
    (call.tool = "code_execute" /\ call.pc = "ended") =>
        /\ call.out.kind = "return"
        /\ call.validation.errors # <<>> => (~call.out.value.success /\ sandbox = IdleSandbox)

\* C29: no step changes the registry.
C29_RegistryUnchanged == [][tools' = tools]_vars

\* Both runs on the shared registry have had tools executed and have ended.
C29_Witness ==
    /\ \A r \in RunIds : Ended(run[r]) /\ Len(run[r].calls) > 0
    /\ tools = ToolNames

\* C30: when an invocation of _execute_code that installed the restricted
\* import has ended, whatever way the script ended, the import function of the
\* process is the original one.
C30_ImportRestored ==
    (sandbox.pc \in {"done", "escaped"} /\ interp.builtins = "module") =>
        interp.import = "original"

\* The invocation of _execute_code has ended at a statement of the script that
\* raises, an Exception or a BaseException that is no Exception.
ScriptRaised ==
    /\ sandbox.pc \in {"done", "escaped"}
    /\ sandbox.pos <= Len(ScriptOf(sandbox.code).stmts)
    /\ Current(sandbox).op \in {"raise", "raise_base"}

\* C31: a script that ends by raising, an interpreter-exit signal included, is
\* reported in a result with its error set; nothing leaves the invocation as a
\* raised exception.
C31_ScriptFailureReported ==
    ScriptRaised => (sandbox.pc = "done" /\ sandbox.result.error # Absent)

\* C32: every pair of the results carries the name of the tool whose execute
\* produced it, pdf_parser for a chained call and the selected tool otherwise,
\* and a selection of web_search has at most one pair under web_search.
C32_LabelledByProducer ==
    \A r \in RunIds :
        LET rr == run[r] IN
        /\ \A k \in 1..Len(rr.results) :
               rr.results[k].name = IF rr.results[k].chained
                                    THEN "pdf_parser"
                                    ELSE rr.selected[rr.results[k].sel].name
        /\ \A i \in 1..Len(rr.selected) :
               rr.selected[i].name = "web_search" =>
                   Cardinality({k \in 1..Len(rr.results) :
                                    rr.results[k].sel = i
                                    /\ rr.results[k].name = "web_search"}) <= 1

InFlight(rr) == rr.pc \in {"await_tool", "await_chain"}

\* C33: when no run is in flight on the conversation, its history has even
\* length and alternates user, assistant from its first message on.
C33_HistoryAlternates ==
    (\A r \in RunIds : ~InFlight(run[r])) =>
        /\ Len(GetConversation) % 2 = 0
        /\ \A k \in 1..Len(GetConversation) :
               GetConversation[k].role = IF k % 2 = 1 THEN "user" ELSE "assistant"

\* The call has passed the validation and gone on from it.
PastValidation ==
    /\ call.pc \in {"body", "ended"}
    /\ ~call.validation.raised
    /\ call.validation.errors = <<>>

\* C37: a validated call of web_search whose backend answers with status 200
\* returns a successful result holding the entries of the answer.
C37_SearchSucceedsOn200 ==
    (/\ call.tool = "web_search"
     /\ call.pc = "ended"
     /\ PastValidation
     /\ call.backend.key
     /\ call.backend.status = 200) =>
        /\ call.out.kind = "return"
        /\ call.out.value.success
        /\ call.out.value.payload.entries = call.backend.entries

\* C38: a validated call of data_analysis that supplies file_path or url does
\* not return the error that one of them must be provided.
C38_AnalysisWhenSourceGiven ==
    (/\ call.tool = "data_analysis"
     /\ PastValidation
     /\ {"file_path", "url"} \cap Supplied(call.params) # {}) =>
        call.out # Returned(FormatError("data_analysis", EitherMsg))

\* C34: a step never replaces the record of a stored file: a file id that is
\* stored before and after the step has the same record.
C34_UploadNeverOverwrites ==
    [][\A f \in DOMAIN uploaded_files \cap DOMAIN uploaded_files' :
           uploaded_files'[f] = uploaded_files[f]]_vars

\* Every key of the store is the conversation_id of its orchestrator.
KeysMatch ==
    \A id \in DOMAIN conversations :
        orchestrators[conversations[id]].conversation_id = id

IsPrefix(a, b) == Len(a) <= Len(b) /\ SubSeq(b, 1, Len(a)) = a

\* An id that stays in the store keeps its orchestrator, a request that supplies
\* a stored id is served by the orchestrator stored under it, histories only
\* grow, and an id leaves the store only by delete_conversation.
StoreStep ==
    /\ \A id \in DOMAIN conversations \cap DOMAIN conversations' :
           conversations'[id] = conversations[id]
    /\ \A p \in RunIds :
           (/\ requests[p].pc = "idle"
            /\ requests'[p].pc = "awaiting"
            /\ requests'[p].cid \in DOMAIN conversations) =>
               requests'[p].orch = conversations[requests'[p].cid]
    /\ \A i \in 1..Len(orchestrators) :
           IsPrefix(orchestrators[i].messages, orchestrators'[i].messages)
    /\ \A id \in DOMAIN conversations \ DOMAIN conversations' :
           /\ ~orchestrators[conversations[id]].deleted
           /\ orchestrators'[conversations[id]].deleted

\* C35: every key of the conversation store is the conversation_id of the
\* orchestrator stored under it; until it is deleted an id is served by one and
\* the same orchestrator, whose history accumulates; a conversation leaves the
\* store only through delete_conversation.
C35_StoreKeepsConversations == []KeysMatch /\ [][StoreStep]_vars

\* A conversation holds the messages of two queries, after another conversation
\* was deleted.
C35_Witness ==
    /\ \E id \in DOMAIN conversations : Len(GetConversationOf(id).messages) >= 4
    /\ \E i \in 1..Len(orchestrators) : orchestrators[i].deleted

\* C36: what get_conversation returns for an id holds only messages of requests
\* served by the orchestrator now stored under the id, never a message of an
\* orchestrator that was deleted.
C36_DeletedNeverReadable ==
    \A id \in DOMAIN conversations :
        LET read == GetConversationOf(id).messages IN
        /\ ~orchestrators[conversations[id]].deleted
        /\ \A k \in 1..Len(read) :
               /\ read[k].by = conversations[id]
               /\ ~orchestrators[read[k].by].deleted

\* A conversation was deleted while a request on it was in flight, a later
\* query with the same id has made a new conversation, and the reply of the
\* request in flight has been appended.
C36_Witness ==
    \E i \in 1..Len(orchestrators) :
        LET o == orchestrators[i] IN
        /\ o.deleted
        /\ Len(o.messages) = 2
        /\ o.messages[2].role = "assistant"
        /\ o.messages[2].late
        /\ o.conversation_id \in DOMAIN conversations
        /\ conversations[o.conversation_id] # i
        /\ GetConversationOf(o.conversation_id).messages =
               <<StoreMessage("user", StoreQuery, conversations[o.conversation_id])>>

====
